---- MODULE Spec2Model ----
(***************************************************************************)
(* ByteMap: a file is compressed, its bytes are rendered as a bit string,  *)
(* the bit string is packed 32 bits per RGBA pixel into a square image,    *)
(* and the image is converted back by the inverse path.                    *)
(*                                                                         *)
(* The model covers the codec functions of src/bytemap.py (the same        *)
(* functions are methods of ConversionWorker in src/bytemap_beta.py) and   *)
(* the two conversions of both programs, step by step.                     *)
(***************************************************************************)
EXTENDS Integers, Sequences, FiniteSets

(***************************************************************************)
(* Bounds of the model.                                                    *)
(***************************************************************************)
\* longest input file, in bytes
MaxFileLen == 7
\* conversions one process run performs
MaxConversions == 2
\* longest bit string handed to a codec function called on its own
MaxBits == 66
\* every bit string up to this length is an input of the codec functions
MaxFullLen == 6
\* largest bit length handed to the layout computation called on its own
MaxLayoutBits == 1200
\* most all-zero pixels that follow the encoder's pixels in a decoded image
MaxSlack == 4

(***************************************************************************)
(* Program constants.                                                      *)
(***************************************************************************)
\* bits per pixel chunk: the 32 of binary_to_rgba_pixels
ChunkBits == 32
\* bits per channel and per byte: the 8 of '08b' and of chunk[0:8]
ByteBits == 8

\* the byte values input files are made of
ByteVals == {0, 255}

(***************************************************************************)
(* Sequences.                                                              *)
(***************************************************************************)
Zeros(n) == [i \in 1..n |-> 0]

Ones(n) == [i \in 1..n |-> 1]

Alternating(n) == [i \in 1..n |-> i % 2]

OneAt(n, k) == [i \in 1..n |-> IF i = k THEN 1 ELSE 0]

\* all sequences over S of length exactly n / at most n
SeqsOfLen(S, n) == [1..n -> S]

SeqsUpTo(S, n) == UNION {SeqsOfLen(S, k) : k \in 0..n}

RECURSIVE Flatten(_)
Flatten(ss) == IF ss = <<>> THEN <<>> ELSE Head(ss) \o Flatten(Tail(ss))

IsPrefix(s, t) == Len(s) <= Len(t) /\ SubSeq(t, 1, Len(s)) = s

(***************************************************************************)
(* Python's conversions between integers and binary digit strings.         *)
(***************************************************************************)
\* int(s, 2) of a digit string of at most 8 digits, most significant first
RECURSIVE ParseBinary(_)
ParseBinary(s) ==
    IF s = <<>> THEN 0
    ELSE 2 * ParseBinary(SubSeq(s, 1, Len(s) - 1)) + s[Len(s)]

\* int(chunk[a:b], 2)
ChannelValue(s) == ParseBinary(s)

\* the binary digits of v, most significant first, none for 0
RECURSIVE BinDigits(_)
BinDigits(v) == IF v = 0 THEN <<>> ELSE Append(BinDigits(v \div 2), v % 2)

\* format(v, '08b') and f'{v:08b}': the digits of v, zero-filled on the left to
\* a width of 8 (more digits when v > 255)
Format08b(v) ==
    LET d == BinDigits(v)
    IN  IF Len(d) >= ByteBits THEN d ELSE Zeros(ByteBits - Len(d)) \o d

\* format(v, 'b'): the digits of v without the zero fill
FormatNoFill(v) == IF v = 0 THEN <<0>> ELSE BinDigits(v)

\* the bytes rendered without the zero fill
BytesToBitsNoFill(data) == Flatten([i \in 1..Len(data) |-> FormatNoFill(data[i])])

\* ''.join(format(byte, '08b') for byte in data)
BytesToBits(data) == Flatten([i \in 1..Len(data) |-> Format08b(data[i])])

(***************************************************************************)
(* binary_to_rgba_pixels.                                                  *)
(***************************************************************************)
\* a padding that leaves out the final "% 32"
PaddingLengthNoWrap(n) == ChunkBits - (n % ChunkBits)

\* padding_length = (32 - len(binary_data) % 32) % 32
PaddingLength(n) == (ChunkBits - (n % ChunkBits)) % ChunkBits

\* binary_data += '0' * padding_length
PadBinary(binary) == binary \o Zeros(PaddingLength(Len(binary)))

\* a chunk whose four channels are stored in the order A, B, G, R
ChunkToPixelSwapped(chunk) ==
    << ChannelValue(SubSeq(chunk, 25, 32)), ChannelValue(SubSeq(chunk, 17, 24)),
       ChannelValue(SubSeq(chunk, 9, 16)), ChannelValue(SubSeq(chunk, 1, 8)) >>

\* r, g, b, a = int(chunk[0:8], 2), int(chunk[8:16], 2), int(chunk[16:24], 2),
\* int(chunk[24:32], 2)
ChunkToPixel(chunk) ==
    << ChannelValue(SubSeq(chunk, 1, 8)), ChannelValue(SubSeq(chunk, 9, 16)),
       ChannelValue(SubSeq(chunk, 17, 24)), ChannelValue(SubSeq(chunk, 25, 32)) >>

\* for i in range(0, len(binary_data), 32): chunk = binary_data[i:i+32]; ...
\* returns pixels, padding_length; "padded" is the rebound local binary_data
binary_to_rgba_pixels(binary) ==
    LET padded == PadBinary(binary)
        nchunks == (Len(padded) + ChunkBits - 1) \div ChunkBits
        chunk(i) == SubSeq(padded, ChunkBits * (i - 1) + 1,
                           IF ChunkBits * i <= Len(padded)
                           THEN ChunkBits * i ELSE Len(padded))
    IN  [ pixels |-> [i \in 1..nchunks |-> ChunkToPixel(chunk(i))],
          padding_length |-> PaddingLength(Len(binary)),
          padded |-> padded ]

(***************************************************************************)
(* rgba_pixels_to_binary.                                                  *)
(***************************************************************************)
\* f'{r:08b}{g:08b}{b:08b}{a:08b}' for each pixel, joined
rgba_pixels_to_binary(pxs) ==
    Flatten([i \in 1..Len(pxs) |->
                Format08b(pxs[i][1]) \o Format08b(pxs[i][2])
                \o Format08b(pxs[i][3]) \o Format08b(pxs[i][4])])

(***************************************************************************)
(* int(binary_data, 2).to_bytes((len(binary_data) + 7) // 8, 'big').       *)
(* The integer is held as its binary digits, most significant first and    *)
(* without leading zeros: Python's integers are unbounded.                 *)
(***************************************************************************)
\* int(binary_data, 2): leading zero digits do not change the value
RECURSIVE IntFromBinary(_)
IntFromBinary(s) ==
    IF s = <<>> THEN <<>>
    ELSE IF Head(s) = 0 THEN IntFromBinary(Tail(s)) ELSE s

\* (len(binary_data) + 7) // 8
ByteLength(n) == (n + ByteBits - 1) \div ByteBits

\* the bytes of a digit string whose length is a multiple of 8, in order
GroupBytes(s) ==
    [i \in 1..(Len(s) \div ByteBits) |->
        ParseBinary(SubSeq(s, ByteBits * (i - 1) + 1, ByteBits * i))]

\* to_bytes with byteorder='little': the least significant byte first
ToBytesLittle(digits, length) ==
    LET big == GroupBytes(Zeros(ByteBits * length - Len(digits)) \o digits)
    IN  [i \in 1..Len(big) |-> big[Len(big) + 1 - i]]

\* value.to_bytes(length, byteorder='big'): the value right-aligned in length
\* bytes, zero-filled on the left (length is never too small here)
ToBytesBig(digits, length) ==
    GroupBytes(Zeros(ByteBits * length - Len(digits)) \o digits)

\* byte_data = int(binary_data, 2).to_bytes((len(binary_data) + 7) // 8, 'big')
BitsToBytes(binary) == ToBytesBig(IntFromBinary(binary), ByteLength(Len(binary)))

(***************************************************************************)
(* The layout of the image.                                                *)
(***************************************************************************)
\* int(x ** 0.5): the square root rounded down, found by counting up
RECURSIVE RootFrom(_, _)
RootFrom(x, r) == IF (r + 1) * (r + 1) > x THEN r ELSE RootFrom(x, r + 1)

IntSqrt(x) == RootFrom(x, 0)

\* pixel_count = (len(binary_data) + 31) // 32
PixelCount(nbits) == (nbits + ChunkBits - 1) \div ChunkBits

\* a side without the "+ 1"
SideNoExtra(count) == IntSqrt(count)

\* width = height = int(pixel_count ** 0.5) + 1
Side(count) == IntSqrt(count) + 1

(***************************************************************************)
(* compress_data and decompress_data.  The zstd frame is a library format; *)
(* the model keeps the properties the conversions rely on: a frame starts  *)
(* with a magic number, says how long it is, can be shorter than its       *)
(* content (runs of equal bytes are stored once), and decompression stops  *)
(* at the end of the frame, whatever follows it.                           *)
(***************************************************************************)
\* the first byte of a frame
FrameMagic == 40

\* the runs of equal bytes of data, each as <<count, value>>
RECURSIVE RunsOf(_)
RunsOf(data) ==
    IF data = <<>> THEN <<>>
    ELSE LET rest == RunsOf(Tail(data))
         IN  IF rest # <<>> /\ rest[1][2] = Head(data)
             THEN <<(<<rest[1][1] + 1, Head(data)>>)>> \o Tail(rest)
             ELSE <<(<<1, Head(data)>>)>> \o rest

\* cctx.compress(data): the frame of data
compress_data(data) == <<FrameMagic, Len(RunsOf(data))>> \o Flatten(RunsOf(data))

\* a decompressor that takes its whole input for the frame
decompress_whole_input(data) ==
    LET headed == Len(data) >= 2 /\ data[1] = FrameMagic
        nruns == IF headed THEN data[2] ELSE 0
        exact == headed /\ Len(data) = 2 + 2 * nruns
                 /\ \A i \in 1..nruns : data[1 + 2 * i] >= 1
    IN  [ ok |-> exact,
          data |-> IF exact
                   THEN Flatten([i \in 1..nruns |->
                                    [j \in 1..data[1 + 2 * i] |-> data[2 + 2 * i]]])
                   ELSE <<>> ]

\* dctx.decompress(data): fails on a wrong magic number, a truncated frame or a
\* corrupt run; reads the frame and nothing after it
decompress_data(data) ==
    LET headed == Len(data) >= 2 /\ data[1] = FrameMagic
        nruns == IF headed THEN data[2] ELSE 0
        whole == headed /\ Len(data) >= 2 + 2 * nruns
                 /\ \A i \in 1..nruns : data[1 + 2 * i] >= 1
    IN  [ ok |-> whole,
          data |-> IF whole
                   THEN Flatten([i \in 1..nruns |->
                                    [j \in 1..data[1 + 2 * i] |-> data[2 + 2 * i]]])
                   ELSE <<>> ]

(***************************************************************************)
(* Images.                                                                 *)
(***************************************************************************)
NoImage == [mode |-> "none", width |-> 0, height |-> 0, data |-> <<>>]

ZeroPixel == <<0, 0, 0, 0>>

ZeroPixels(n) == [i \in 1..n |-> ZeroPixel]

\* pixels, _ = binary_to_rgba_pixels(binary_data)
\* img = Image.new('RGBA', (width, height)); img.putdata(pixels)
\* a new image is all zero, and putdata fills it row by row from the first cell
create_image_from_binary(binary, w, h) ==
    LET pxs == binary_to_rgba_pixels(binary).pixels
    IN  [ mode |-> "RGBA", width |-> w, height |-> h,
          data |-> pxs \o ZeroPixels(w * h - Len(pxs)) ]

\* pixels = list(img.getdata()); rgba_pixels_to_binary(pixels)
create_binary_from_image(image) == rgba_pixels_to_binary(image.data)

(***************************************************************************)
(* State.                                                                  *)
(***************************************************************************)
VARIABLES
    app,                \* "tk": bytemap.py, "qt": bytemap_beta.py
    pc,                 \* where the running conversion (or call) stands
    mode,               \* "to_image" or "to_file"
    conversions,        \* conversions started by this process
    srcFile,            \* the content of the input file of the encoder
    pngFile,            \* the .bytemap.png file on disk
    outFile,            \* the .output file on disk
    log,                \* error.log
    file_data, compressed_data, binary_data, pixels, padding_length,
    pixel_count, width, height, img, byte_data, decompressed_data,
    original_size, compressed_size, compression_ratio, compression_percentage,
    progress,           \* the values reported to the progress bar, in order
    result,             \* how the conversion ended
    message,            \* what the user was shown
    written,            \* what the conversion has put on disk
    call                \* the function and argument of a call made on its own

vars == << app, pc, mode, conversions, srcFile, pngFile, outFile, log,
           file_data, compressed_data, binary_data, pixels, padding_length,
           pixel_count, width, height, img, byte_data, decompressed_data,
           original_size, compressed_size, compression_ratio,
           compression_percentage, progress, result, message, written, call >>

locals == << file_data, compressed_data, binary_data, pixels, padding_length,
             pixel_count, width, height, img, byte_data, decompressed_data >>

\* the size accounting of the file-to-image conversion
metrics == << original_size, compressed_size, compression_ratio,
              compression_percentage >>

disk == << srcFile, pngFile, outFile >>

\* a quotient not yet computed
NoFraction == [num |-> 0, den |-> 0]

NoCall == [fn |-> "none", bits |-> <<>>, n |-> 0]

AbsentFile == [state |-> "absent", data |-> <<>>]

AbsentImage == [state |-> "absent", image |-> NoImage]

\* the locals of a conversion before it has assigned them
FreshLocals ==
    /\ file_data = <<>> /\ compressed_data = <<>> /\ binary_data = <<>>
    /\ pixels = <<>> /\ padding_length = 0 /\ pixel_count = 0
    /\ width = 0 /\ height = 0 /\ img = NoImage
    /\ byte_data = <<>> /\ decompressed_data = <<>>
    /\ original_size = 0 /\ compressed_size = 0
    /\ compression_ratio = NoFraction /\ compression_percentage = NoFraction

ResetLocals ==
    /\ file_data' = <<>> /\ compressed_data' = <<>> /\ binary_data' = <<>>
    /\ pixels' = <<>> /\ padding_length' = 0 /\ pixel_count' = 0
    /\ width' = 0 /\ height' = 0 /\ img' = NoImage
    /\ byte_data' = <<>> /\ decompressed_data' = <<>>
    /\ original_size' = 0 /\ compressed_size' = 0
    /\ compression_ratio' = NoFraction /\ compression_percentage' = NoFraction

(***************************************************************************)
(* The codec functions called on their own, on inputs from bounded sets.   *)
(***************************************************************************)
BitInputs ==
    SeqsUpTo({0, 1}, MaxFullLen)
    \cup {Zeros(n) : n \in 0..MaxBits}
    \cup {Ones(n) : n \in 0..MaxBits}
    \cup {Alternating(n) : n \in 0..MaxBits}
    \cup UNION {{OneAt(n, k) : k \in 1..n} : n \in 1..MaxBits}

UnitCalls ==
    {[fn |-> "binary_to_rgba_pixels", bits |-> b, n |-> Len(b)] : b \in BitInputs}
    \cup {[fn |-> "to_bytes", bits |-> b, n |-> Len(b)] : b \in BitInputs \ {<<>>}}
    \cup {[fn |-> "layout", bits |-> <<>>, n |-> k] : k \in 0..MaxLayoutBits}

UnitInit ==
    /\ app = "tk" /\ pc = "call" /\ mode = "none" /\ conversions = 0
    /\ srcFile = <<>> /\ pngFile = AbsentImage /\ outFile = AbsentFile
    /\ log = <<>> /\ FreshLocals
    /\ progress = <<>> /\ result = "none" /\ message = "none" /\ written = "none"
    /\ call \in UnitCalls

UnitFrame == UNCHANGED << app, mode, conversions, disk, log, progress, result,
                          message, written, call, metrics >>

\* pixels, padding_length = binary_to_rgba_pixels(bits)
CallBinaryToRgbaPixels ==
    /\ pc = "call" /\ call.fn = "binary_to_rgba_pixels"
    /\ LET r == binary_to_rgba_pixels(call.bits)
       IN  /\ binary_data' = r.padded
           /\ pixels' = r.pixels
           /\ padding_length' = r.padding_length
    /\ pc' = "ret"
    /\ UNCHANGED << file_data, compressed_data, pixel_count, width, height, img,
                    byte_data, decompressed_data >>
    /\ UnitFrame

\* byte_data = int(bits, 2).to_bytes((len(bits) + 7) // 8, byteorder='big')
CallBitsToBytes ==
    /\ pc = "call" /\ call.fn = "to_bytes"
    /\ byte_data' = BitsToBytes(call.bits)
    /\ pc' = "ret"
    /\ UNCHANGED << file_data, compressed_data, binary_data, pixels, padding_length,
                    pixel_count, width, height, img, decompressed_data >>
    /\ UnitFrame

\* pixel_count = (n + 31) // 32; width = height = int(pixel_count ** 0.5) + 1
CallLayout ==
    /\ pc = "call" /\ call.fn = "layout"
    /\ pixel_count' = PixelCount(call.n)
    /\ width' = Side(PixelCount(call.n))
    /\ height' = Side(PixelCount(call.n))
    /\ pc' = "ret"
    /\ UNCHANGED << file_data, compressed_data, binary_data, pixels, padding_length,
                    img, byte_data, decompressed_data >>
    /\ UnitFrame

UnitNext == CallBinaryToRgbaPixels \/ CallBitsToBytes \/ CallLayout

UnitSpec == UnitInit /\ [][UnitNext]_vars

(***************************************************************************)
(* The two conversions, as bytemap.py ("tk") and bytemap_beta.py ("qt") run *)
(* them.  A failure of the environment (a file that cannot be read or      *)
(* written, a library call that raises) is a choice of the step it strikes.*)
(***************************************************************************)
FileInputs == SeqsUpTo(ByteVals, MaxFileLen)

\* update_progress(v) / self.progress.emit(v): the values each program reports,
\* by conversion and by the step just finished
ProgressQtOpenLate(a, m, step) ==
    IF a = "tk" /\ m = "to_image"
    THEN (IF step = "start" THEN <<0>> ELSE IF step = "read" THEN <<20>>
          ELSE IF step = "bits" THEN <<50>> ELSE IF step = "saved" THEN <<100>>
          ELSE <<>>)
    ELSE IF a = "qt" /\ m = "to_image"
    THEN (IF step = "start" THEN <<10>> ELSE IF step = "read" THEN <<30>>
          ELSE IF step = "bits" THEN <<60>> ELSE IF step = "saved" THEN <<100>>
          ELSE <<>>)
    ELSE IF a = "tk" /\ m = "to_file"
    THEN (IF step = "start" THEN <<0>> ELSE IF step = "binary" THEN <<50>>
          ELSE IF step = "written" THEN <<100>> ELSE <<>>)
    ELSE (IF step = "start" THEN <<10>> ELSE IF step = "opened" THEN <<60>>
          ELSE IF step = "binary" THEN <<50>> ELSE IF step = "bytes" THEN <<70>>
          ELSE IF step = "written" THEN <<100>> ELSE <<>>)

ProgressReport(a, m, step) ==
    IF a = "tk" /\ m = "to_image"
    THEN (IF step = "start" THEN <<0>> ELSE IF step = "read" THEN <<20>>
          ELSE IF step = "bits" THEN <<50>> ELSE IF step = "saved" THEN <<100>>
          ELSE <<>>)
    ELSE IF a = "qt" /\ m = "to_image"
    THEN (IF step = "start" THEN <<10>> ELSE IF step = "read" THEN <<30>>
          ELSE IF step = "bits" THEN <<60>> ELSE IF step = "saved" THEN <<100>>
          ELSE <<>>)
    ELSE IF a = "tk" /\ m = "to_file"
    THEN (IF step = "start" THEN <<0>> ELSE IF step = "binary" THEN <<50>>
          ELSE IF step = "written" THEN <<100>> ELSE <<>>)
    ELSE (IF step = "start" THEN <<10>> ELSE IF step = "opened" THEN <<30>>
          ELSE IF step = "binary" THEN <<50>> ELSE IF step = "bytes" THEN <<70>>
          ELSE IF step = "written" THEN <<100>> ELSE <<>>)

\* a log call that writes nothing
LogErrorDropped(l, op, exc) == l

\* logging.error(...): one more entry at the end of error.log
LogError(l, op, exc) == Append(l, [op |-> op, exc |-> exc])

\* the name the handler of the running conversion logs under
HandlerOp(m) == IF m = "to_image" THEN "convert_to_image" ELSE "convert_to_file"

\* a / b as an exact quotient (b # 0)
Quotient(a, b) == [num |-> a, den |-> b]

\* a percentage that leaves out the "1 -": the share kept, not the share saved
PercentageKept(ratio) == [num |-> ratio.num * 100, den |-> ratio.den]

\* compression_percentage = (1 - compression_ratio) * 100
Percentage(ratio) == [num |-> (ratio.den - ratio.num) * 100, den |-> ratio.den]

\* a size check with the comparison the wrong way round
NoBenefitReversed(compressed, original) == compressed < original

\* a size check that lets an equal size through
NoBenefitStrict(compressed, original) == compressed > original

\* if compressed_size >= original_size: ... return
NoBenefit(compressed, original) == compressed >= original

\* except Exception as e: logging.error(...); messagebox.showerror("Error", str(e))
\* (self.error.emit(str(e)) in bytemap_beta.py)
Raise(l, exc) ==
    /\ log' = LogError(l, HandlerOp(mode), exc)
    /\ message' = exc
    /\ result' = "error"
    /\ pc' = "done"

\* The user presses a conversion button.  Both programs refuse to convert when
\* the input file or the output directory is not chosen, with a message only.
Start ==
    /\ pc \in {"idle", "done"}
    /\ conversions < MaxConversions
    /\ conversions' = conversions + 1
    /\ \E m \in {"to_image", "to_file"}, chosen \in BOOLEAN :
        /\ mode' = m
        /\ IF chosen
           THEN pc' = "begin" /\ result' = "none" /\ message' = "none"
           ELSE pc' = "done" /\ result' = "invalid" /\ message' = "select"
    /\ ResetLocals
    /\ progress' = <<>>
    /\ written' = "none"
    /\ UNCHANGED << app, disk, log, call >>

\* update_progress(0); file_data = f.read(); original_size; update_progress(20)
EncRead ==
    /\ pc = "begin" /\ mode = "to_image"
    /\ \/ /\ file_data' = srcFile
          /\ original_size' = Len(srcFile)
          /\ progress' = progress \o ProgressReport(app, mode, "start")
                                  \o ProgressReport(app, mode, "read")
          /\ pc' = "compress"
          /\ UNCHANGED << log, message, result >>
       \/ /\ progress' = progress \o ProgressReport(app, mode, "start")
          /\ Raise(log, "OSError")
          /\ UNCHANGED << file_data, original_size >>
    /\ UNCHANGED << app, mode, conversions, disk, compressed_data, binary_data,
                    pixels, padding_length, pixel_count, width, height, img,
                    byte_data, decompressed_data, compressed_size,
                    compression_ratio, compression_percentage, written, call >>

\* compressed_data = compress_data(file_data); compressed_size; the size check;
\* binary_data; update_progress(50)
EncCompress ==
    /\ pc = "compress"
    /\ \/ /\ NoBenefit(Len(compress_data(file_data)), original_size)
          /\ compressed_data' = compress_data(file_data)
          /\ compressed_size' = Len(compress_data(file_data))
          /\ message' = "no benefit"
          /\ result' = "abort"
          /\ pc' = "done"
          /\ UNCHANGED << binary_data, progress, log >>
       \/ /\ ~NoBenefit(Len(compress_data(file_data)), original_size)
          /\ compressed_data' = compress_data(file_data)
          /\ compressed_size' = Len(compress_data(file_data))
          /\ binary_data' = BytesToBits(compress_data(file_data))
          /\ progress' = progress \o ProgressReport(app, mode, "bits")
          /\ pc' = "layout"
          /\ UNCHANGED << message, result, log >>
       \/ \* compress_data logs and re-raises, the conversion's handler logs again
          /\ Raise(LogError(log, "compress_data", "ZstdError"), "ZstdError")
          /\ UNCHANGED << compressed_data, compressed_size, binary_data, progress >>
    /\ UNCHANGED << app, mode, conversions, disk, file_data, pixels, padding_length,
                    pixel_count, width, height, img, byte_data, decompressed_data,
                    original_size, compression_ratio, compression_percentage,
                    written, call >>

\* pixel_count, width, height; img = create_image_from_binary(...)
EncBuild ==
    /\ pc = "layout"
    /\ \/ /\ pixel_count' = PixelCount(Len(binary_data))
          /\ width' = Side(PixelCount(Len(binary_data)))
          /\ height' = Side(PixelCount(Len(binary_data)))
          /\ pixels' = binary_to_rgba_pixels(binary_data).pixels
          /\ padding_length' = binary_to_rgba_pixels(binary_data).padding_length
          /\ img' = create_image_from_binary(binary_data,
                                             Side(PixelCount(Len(binary_data))),
                                             Side(PixelCount(Len(binary_data))))
          /\ pc' = "save"
          /\ UNCHANGED << message, result, log >>
       \/ /\ Raise(log, "MemoryError")
          /\ UNCHANGED << pixel_count, width, height, pixels, padding_length, img >>
    /\ UNCHANGED << app, mode, conversions, disk, file_data, compressed_data,
                    binary_data, byte_data, decompressed_data, metrics, progress,
                    written, call >>

\* img.save(output_file); compression_ratio = compressed_size / original_size;
\* compression_percentage; update_progress(100); the success message.
\* The division raises ZeroDivisionError on an original_size of 0, after the
\* image was saved.  A save that raises may leave nothing or a partial file.
EncSave ==
    /\ pc = "save"
    /\ \/ /\ pngFile' = [state |-> "complete", image |-> img]
          /\ written' = "complete"
          /\ IF original_size = 0
             THEN /\ Raise(log, "ZeroDivisionError")
                  /\ UNCHANGED << compression_ratio, compression_percentage,
                                  progress >>
             ELSE /\ compression_ratio' = Quotient(compressed_size, original_size)
                  /\ compression_percentage' =
                        Percentage(Quotient(compressed_size, original_size))
                  /\ progress' = progress \o ProgressReport(app, mode, "saved")
                  /\ message' = "converted"
                  /\ result' = "success"
                  /\ pc' = "done"
                  /\ UNCHANGED log
       \/ /\ Raise(log, "OSError")
          /\ UNCHANGED << pngFile, written, progress, compression_ratio,
                          compression_percentage >>
       \/ /\ pngFile' = [state |-> "partial", image |-> NoImage]
          /\ written' = "partial"
          /\ Raise(log, "OSError")
          /\ UNCHANGED << progress, compression_ratio, compression_percentage >>
    /\ UNCHANGED << app, mode, conversions, srcFile, outFile, locals,
                    original_size, compressed_size, call >>

(***************************************************************************)
(* The images a user can hand to the image-to-file conversion.             *)
(***************************************************************************)
\* the pixels the encoder packs for the file content b
EncoderPixels(b) == binary_to_rgba_pixels(BytesToBits(compress_data(b))).pixels

\* pxs as an image of one row
RowImage(pxs) == [mode |-> "RGBA", width |-> Len(pxs), height |-> 1, data |-> pxs]

\* the encoder's pixels for the input file followed by 0..MaxSlack zero pixels
EncoderImages == {RowImage(EncoderPixels(srcFile) \o ZeroPixels(k)) : k \in 0..MaxSlack}

\* images no encoder made: not RGBA, no frame, a truncated frame, and a frame
\* written by hand
ForeignImages ==
    { [mode |-> "RGB", width |-> 1, height |-> 1, data |-> << <<40, 1, 2>> >>],
      RowImage(<< ZeroPixel >>),
      RowImage(<< <<FrameMagic, 3, 1, 0>> >>),
      RowImage(<< <<FrameMagic, 1, 2, 255>> >>) }

DecodeInputs ==
    (IF pngFile.state = "complete"
     THEN {pngFile.image} \cup EncoderImages ELSE {})
    \cup ForeignImages

\* update_progress(0); img = Image.open(input_file)
DecOpen ==
    /\ pc = "begin" /\ mode = "to_file"
    /\ \/ \E image \in DecodeInputs :
            /\ img' = image
            /\ progress' = progress \o ProgressReport(app, mode, "start")
                                    \o ProgressReport(app, mode, "opened")
            /\ pc' = "unpack"
            /\ UNCHANGED << log, message, result >>
       \/ /\ progress' = progress \o ProgressReport(app, mode, "start")
          /\ Raise(log, "OSError")
          /\ UNCHANGED img
    /\ UNCHANGED << app, mode, conversions, disk, file_data, compressed_data,
                    binary_data, pixels, padding_length, pixel_count, width, height,
                    byte_data, decompressed_data, metrics, written, call >>

\* binary_data = create_binary_from_image(img); update_progress(50);
\* byte_data = int(binary_data, 2).to_bytes(...)
\* "r, g, b, a = pixel" raises on a pixel that is no 4-tuple
DecUnpack ==
    /\ pc = "unpack"
    /\ \/ /\ img.mode = "RGBA"
          /\ pixels' = img.data
          /\ binary_data' = create_binary_from_image(img)
          /\ byte_data' = BitsToBytes(create_binary_from_image(img))
          /\ progress' = progress \o ProgressReport(app, mode, "binary")
                                  \o ProgressReport(app, mode, "bytes")
          /\ pc' = "decompress"
          /\ UNCHANGED << log, message, result >>
       \/ /\ img.mode # "RGBA"
          /\ Raise(log, "ValueError")
          /\ UNCHANGED << pixels, binary_data, byte_data, progress >>
    /\ UNCHANGED << app, mode, conversions, disk, file_data, compressed_data,
                    padding_length, pixel_count, width, height, img,
                    decompressed_data, metrics, written, call >>

\* decompressed_data = decompress_data(byte_data)
DecDecompress ==
    /\ pc = "decompress"
    /\ \/ /\ decompress_data(byte_data).ok
          /\ decompressed_data' = decompress_data(byte_data).data
          /\ pc' = "write"
          /\ UNCHANGED << log, message, result >>
       \/ \* decompress_data logs and re-raises, the conversion's handler logs again
          /\ ~decompress_data(byte_data).ok
          /\ Raise(LogError(log, "decompress_data", "ZstdError"), "ZstdError")
          /\ UNCHANGED decompressed_data
    /\ UNCHANGED << app, mode, conversions, disk, file_data, compressed_data,
                    binary_data, pixels, padding_length, pixel_count, width, height,
                    img, byte_data, metrics, progress, written, call >>

\* with open(output_file, "wb") as f: f.write(decompressed_data);
\* update_progress(100); the success message.  open() creates the file before
\* write() is called, so a write that raises leaves a file without its content.
DecWrite ==
    /\ pc = "write"
    /\ \/ /\ outFile' = [state |-> "complete", data |-> decompressed_data]
          /\ written' = "complete"
          /\ progress' = progress \o ProgressReport(app, mode, "written")
          /\ message' = "converted"
          /\ result' = "success"
          /\ pc' = "done"
          /\ UNCHANGED log
       \/ \* open() raises
          /\ Raise(log, "OSError")
          /\ UNCHANGED << outFile, written, progress >>
       \/ \* f.write() raises
          /\ outFile' = [state |-> "partial", data |-> <<>>]
          /\ written' = "partial"
          /\ Raise(log, "OSError")
          /\ UNCHANGED progress
    /\ UNCHANGED << app, mode, conversions, srcFile, pngFile, locals, metrics,
                    call >>

Init ==
    /\ app \in {"tk", "qt"}
    /\ pc = "idle" /\ mode = "none" /\ conversions = 0
    /\ srcFile \in FileInputs
    /\ pngFile = AbsentImage /\ outFile = AbsentFile
    /\ log = <<>> /\ FreshLocals
    /\ progress = <<>> /\ result = "none" /\ message = "none" /\ written = "none"
    /\ call = NoCall

Next ==
    \/ Start
    \/ EncRead \/ EncCompress \/ EncBuild \/ EncSave
    \/ DecOpen \/ DecUnpack \/ DecDecompress \/ DecWrite

Spec == Init /\ [][Next]_vars

(***************************************************************************)
(* Properties of the codec functions.                                      *)
(***************************************************************************)
Returned(fn) == pc = "ret" /\ call.fn = fn

\* bit p (from 1) of s followed by zeros for ever
BitOrZero(s, p) == IF p <= Len(s) THEN s[p] ELSE 0

\* bit p (from 1) of s preceded by lead zeros
BitAfterZeros(s, lead, p) == IF p <= lead THEN 0 ELSE s[p - lead]

\* the unsigned value of the 8 bits bit(first) .. bit(first + 7), the first of
\* them the most significant
Unsigned8(bit(_), first) ==
    bit(first) * 128 + bit(first + 1) * 64 + bit(first + 2) * 32
    + bit(first + 3) * 16 + bit(first + 4) * 8 + bit(first + 5) * 4
    + bit(first + 6) * 2 + bit(first + 7)

\* C2: binary_to_rgba_pixels appends (32 - (n mod 32)) mod 32 bits to an n-bit
\* input, all of them 0 and all after the last input bit; the padded length is
\* a multiple of 32, an input that already is one gets no padding, and the
\* padding_length it returns is that number.
C2_PaddingCorrect ==
    Returned("binary_to_rgba_pixels") =>
        /\ padding_length \in 0..31
        /\ (call.n + padding_length) % 32 = 0
        /\ padding_length = (32 - (call.n % 32)) % 32
        /\ Len(binary_data) = call.n + padding_length
        /\ SubSeq(binary_data, 1, call.n) = call.bits
        /\ \A p \in (call.n + 1)..Len(binary_data) : binary_data[p] = 0
        /\ (call.n % 32 = 0 => padding_length = 0 /\ binary_data = call.bits)

\* C2 witness: a 64-bit input, already a multiple of 32, came back unpadded
C2_Witness ==
    /\ Returned("binary_to_rgba_pixels")
    /\ call.n = 64 /\ call.bits[64] = 1
    /\ padding_length = 0 /\ Len(binary_data) = 64

\* C3: binary_to_rgba_pixels emits ceil(n/32) pixels in chunk order, and the
\* channels R, G, B, A of pixel i hold bits [32i, 32i+8), [32i+8, 32i+16),
\* [32i+16, 32i+24), [32i+24, 32i+32) of the padded bit string, each read most
\* significant bit first as an unsigned integer in 0..255.
C3_ChunkToPixelMapping ==
    Returned("binary_to_rgba_pixels") =>
        LET bit(p) == BitOrZero(call.bits, p)
        IN  /\ Len(pixels) * 32 >= call.n
            /\ (Len(pixels) - 1) * 32 < call.n
            /\ \A i \in 1..Len(pixels) :
                /\ Len(pixels[i]) = 4
                /\ \A c \in 1..4 :
                    /\ pixels[i][c] = Unsigned8(bit, 32 * (i - 1) + 8 * (c - 1) + 1)
                    /\ pixels[i][c] \in 0..255

\* C3 witness: a 42-bit input whose only 1 is bit 41, the second bit of the G
\* channel of the second pixel
C3_Witness ==
    /\ Returned("binary_to_rgba_pixels")
    /\ call.bits = OneAt(42, 42)
    /\ pixels = << <<0, 0, 0, 0>>, <<0, 64, 0, 0>> >>

\* C4: for a payload of n >= 0 bits the encoder computes pixel_count =
\* ceil(n/32) and width = height = floor(sqrt(pixel_count)) + 1, so that
\* width * height >= pixel_count; an empty payload gives a 1x1 grid.
C4_LayoutBound ==
    Returned("layout") =>
        /\ pixel_count * 32 >= call.n
        /\ (pixel_count - 1) * 32 < call.n
        /\ width = height
        /\ (width - 1) * (width - 1) <= pixel_count
        /\ pixel_count < width * width
        /\ width * height >= pixel_count
        /\ (call.n = 0 => width = 1 /\ height = 1)

\* C4 witness: 1152 bits are 36 pixels, a perfect square, laid out 7 x 7
C4_Witness ==
    /\ Returned("layout")
    /\ call.n = 1152 /\ pixel_count = 36 /\ width = 7 /\ height = 7

PayloadBits == BytesToBits(compress_data(srcFile))

\* the image-to-file conversion is working on the image the file-to-image
\* conversion saved
DecodingSaved ==
    mode = "to_file" /\ pngFile.state = "complete" /\ img = pngFile.image

\* C1: a non-empty file whose compressed form is strictly shorter, converted to
\* an image and the saved image converted back, gives exactly the file: the
\* conversion back ends in success with the file's bytes as output, unless
\* writing the output itself fails.
C1_RoundTrip ==
    DecodingSaved =>
        /\ Len(srcFile) > 0
        /\ Len(compress_data(srcFile)) < Len(srcFile)
        /\ pc = "write" => decompressed_data = srcFile
        /\ pc = "done" =>
            \/ /\ result = "success"
               /\ outFile = [state |-> "complete", data |-> srcFile]
            \/ result = "error" /\ message = "OSError"

\* C1 witness: a 7-byte file of two runs went through both conversions
C1_Witness ==
    /\ DecodingSaved /\ pc = "done" /\ result = "success"
    /\ srcFile = <<0, 0, 0, 255, 255, 255, 255>>
    /\ outFile.data = srcFile
    /\ Len(img.data) = 4

\* C5: in the file-to-image conversion a compressed length greater than or
\* equal to the original length stops the conversion after compression with the
\* no-benefit message, with no pixels packed and nothing saved; an image is
\* built and saved only when the compressed length is strictly smaller.
C5_AbortPolicy ==
    /\ mode = "to_image" =>
        /\ (compressed_data # <<>> /\ Len(compressed_data) >= Len(file_data)) =>
                /\ pc = "done" /\ result = "abort" /\ message = "no benefit"
                /\ pixels = <<>> /\ img = NoImage /\ written = "none"
        /\ (pc \in {"layout", "save"} \/ pixels # <<>> \/ img # NoImage
            \/ written # "none") =>
                Len(compressed_data) < Len(file_data)
        /\ result = "abort" => Len(compressed_data) >= Len(file_data)
    /\ pngFile.state # "absent" => Len(compress_data(srcFile)) < Len(srcFile)

\* C5 witness: a file of 4 equal bytes compresses to 4 bytes and is refused
C5_Witness ==
    /\ mode = "to_image" /\ result = "abort"
    /\ Len(file_data) = 4 /\ Len(compressed_data) = 4
    /\ pngFile.state = "absent"

\* C6: decoding the encoder's pixels followed by k >= 0 all-zero pixels gives
\* the file, as decoding the pixels alone does; the bits read from all cells of
\* such an image, and of the saved width x height grid, are the payload's bits
\* followed only by 0 bits, and the zero bytes do not change the result.
C6_SlackTolerance ==
    (mode = "to_file" /\ pngFile.state = "complete"
     /\ \/ img = pngFile.image
        \/ \E k \in 0..MaxSlack :
              img = RowImage(EncoderPixels(srcFile) \o ZeroPixels(k))) =>
        /\ pc \in {"decompress", "write", "done"} =>
            /\ Len(binary_data) = 32 * Len(img.data)
            /\ IsPrefix(PayloadBits, binary_data)
            /\ \A p \in (Len(PayloadBits) + 1)..Len(binary_data) : binary_data[p] = 0
            /\ IsPrefix(compress_data(srcFile), byte_data)
        /\ pc = "write" => decompressed_data = srcFile
        /\ pc = "done" =>
            \/ result = "success" /\ outFile.data = srcFile
            \/ result = "error" /\ message = "OSError"

\* C6 witness: the encoder's single pixel followed by 3 zero pixels was decoded
C6_Witness ==
    /\ mode = "to_file" /\ pc = "done" /\ result = "success"
    /\ srcFile = <<255, 255, 255, 255, 255>>
    /\ img = RowImage(EncoderPixels(srcFile) \o ZeroPixels(3))
    /\ Len(binary_data) = 128
    /\ outFile.data = srcFile

\* C7: every conversion ends either with a complete output written and success
\* reported, or with no output written and an error or abort reported.
C7_NoPartialSuccess ==
    pc = "done" =>
        \/ written = "complete" /\ result = "success" /\ message = "converted"
        \/ written = "none" /\ result \in {"abort", "error", "invalid"}
           /\ message # "none"

\* C8: the progress values reported within one conversion never decrease, and
\* 100 is reported exactly when the conversion succeeds, after its output was
\* written; a conversion that aborts or fails never reports 100.
C8_Progress ==
    /\ \A i, j \in 1..Len(progress) : i <= j => progress[i] <= progress[j]
    /\ (\E i \in 1..Len(progress) : progress[i] = 100) =>
            result = "success" /\ written = "complete"
    /\ result = "success" => progress # <<>> /\ progress[Len(progress)] = 100
    /\ result \in {"abort", "error", "invalid"} =>
            \A i \in 1..Len(progress) : progress[i] < 100

\* C8 witness: bytemap_beta.py converted an image to a file
C8_Witness ==
    /\ app = "qt" /\ mode = "to_file" /\ result = "success"
    /\ progress = <<10, 30, 50, 70, 100>>

\* C9: a conversion that fails on an error (reading the input, compressing,
\* building or saving the image, opening the image, decompressing, writing the
\* output) shows the error to the user and adds an entry to the error log in
\* the same step, and the log only ever grows at its end.
C9_FailureReporting ==
    [][ /\ IsPrefix(log, log')
        /\ (result' = "error" /\ result # "error") =>
            /\ message' \in {"OSError", "ZstdError", "MemoryError", "ValueError"}
            /\ Len(log') > Len(log)
            /\ log'[Len(log')] = [op |-> HandlerOp(mode), exc |-> message']
        /\ (result' # "error") => log' = log ]_vars

\* C9 witness: a second conversion failed in decompression after a first one
\* had failed, each with its entries in the log
C9_Witness ==
    /\ result = "error" /\ message = "ZstdError" /\ mode = "to_file"
    /\ conversions = 2
    /\ Len(log) = 3
    /\ log[3] = [op |-> "convert_to_file", exc |-> "ZstdError"]
    /\ log[2] = [op |-> "decompress_data", exc |-> "ZstdError"]

\* C11: the compression ratio compressed_size / original_size is only ever
\* computed with original_size > 0: an empty input file takes the abort branch
\* before packing, so the division never raises, and every compression
\* percentage computed is strictly greater than 0 and at most 100.
C11_RatioDefined ==
    /\ message # "ZeroDivisionError"
    /\ pc = "save" => original_size > 0
    /\ (mode = "to_image" /\ compressed_data # <<>> /\ original_size = 0) =>
            /\ pc = "done" /\ result = "abort"
            /\ pixels = <<>> /\ compression_ratio = NoFraction
    /\ compression_ratio # NoFraction =>
            /\ original_size > 0
            /\ compression_ratio = [num |-> compressed_size, den |-> original_size]
    /\ (mode = "to_image" /\ result = "success") =>
            /\ compression_ratio # NoFraction
            /\ compression_percentage # NoFraction
    /\ compression_percentage # NoFraction =>
            /\ compression_percentage.den > 0
            /\ compression_percentage.num > 0
            /\ compression_percentage.num <= 100 * compression_percentage.den

\* C11 witness: a file of 5 equal bytes compressed to 4 bytes, a ratio of 4/5
\* and a percentage of 100/5 = 20
C11_Witness ==
    /\ mode = "to_image" /\ result = "success"
    /\ original_size = 5 /\ compressed_size = 4
    /\ compression_ratio = [num |-> 4, den |-> 5]
    /\ compression_percentage = [num |-> 100, den |-> 5]

\* an empty input file was refused by the size check
EmptyInputAborted ==
    /\ mode = "to_image" /\ result = "abort"
    /\ srcFile = <<>> /\ original_size = 0 /\ compressed_size = 2

====
